---------------------------- MODULE Spec2Model ----------------------------
(***************************************************************************)
(* A model of the pathtree package (Jetvp/pathtree): a trie of path        *)
(* patterns with Add, Find and Reverse.  The model follows the richest     *)
(* revision of tree.go (src/unnamed/part_001), the one tree_test.go        *)
(* exercises.  Go strings are TLA+ strings; s[i:j] is Slice(s, i, j).      *)
(* A Go function is one operator, or a chain of operators that hand each   *)
(* other the function's local variables as parameters.                     *)
(***************************************************************************)
EXTENDS Integers, Sequences, FiniteSets, TLC

VARIABLES
  nodes,   \* the heap of the tree's nodes
  last,    \* the caller's last call and what it returned
  calls,   \* the Add calls made so far, each with what it returned
  suite    \* the inputs the caller draws from, fixed for a run

vars == <<nodes, last, calls, suite>>

\* The number of Add calls a run makes.
MaxAdds == 3

\* A nil pointer.
Nil == [nil |-> TRUE]

\* The error values of Add, and a run-time panic (index out of range).
ErrInvalid == "Path must begin with /"
ErrDuplicate == "duplicate path"
Panic == "panic: index out of range"

---------------------------------------------------------------------------
(* Strings (packages strings and strconv) *)

\* s[i:j], 0-based, j exclusive.
Slice(s, i, j) == SubSeq(s, i + 1, j)

\* s[i:]
SliceFrom(s, i) == SubSeq(s, i + 1, Len(s))

\* s[i], as a one-character string.
At(s, i) == SubSeq(s, i + 1, i + 1)

\* The least of a set of positions, or -1 for none.
firstOf(c) == IF c = {} THEN -1 ELSE CHOOSE x \in c : \A y \in c : x <= y

\* strings.Index: the first position of sub in s, or -1.
Index(s, sub) ==
  firstOf({i \in 0..(Len(s) - Len(sub)) : Slice(s, i, i + Len(sub)) = sub})

\* strings.Split(s, sep), sep not empty: always at least one element.
RECURSIVE Split(_, _)
splitAt(s, sep, pos) ==
  IF pos = -1 THEN <<s>>
  ELSE <<Slice(s, 0, pos)>> \o Split(SliceFrom(s, pos + Len(sep)), sep)

Split(s, sep) == splitAt(s, sep, Index(s, sep))

\* strings.Join
RECURSIVE Join(_, _)
Join(a, sep) ==
  IF Len(a) = 0 THEN ""
  ELSE IF Len(a) = 1 THEN a[1]
  ELSE a[1] \o sep \o Join(Tail(a), sep)

Digits == <<"0", "1", "2", "3", "4", "5", "6", "7", "8", "9">>

DigitVal(c) == (CHOOSE d \in 1..10 : Digits[d] = c) - 1

IsDigit(c) == \E d \in 1..10 : Digits[d] = c

RECURSIVE ParseDigits(_, _)
ParseDigits(s, acc) ==
  IF Len(s) = 0 THEN acc
  ELSE ParseDigits(SliceFrom(s, 1), acc * 10 + DigitVal(At(s, 0)))

atoiDigits(body, sign) ==
  IF Len(body) > 0 /\ \A i \in 0..(Len(body) - 1) : IsDigit(At(body, i))
  THEN [err |-> FALSE, val |-> sign * ParseDigits(body, 0)]
  ELSE [err |-> TRUE, val |-> 0]

\* strconv.Atoi: an optional sign and one or more decimal digits.
Atoi(s) ==
  IF Len(s) > 0 /\ At(s, 0) = "-" THEN atoiDigits(SliceFrom(s, 1), -1)
  ELSE IF Len(s) > 0 /\ At(s, 0) = "+" THEN atoiDigits(SliceFrom(s, 1), 1)
  ELSE atoiDigits(s, 1)

RECURSIVE ItoaNat(_)
ItoaNat(n) ==
  IF n < 10 THEN Digits[n + 1] ELSE ItoaNat(n \div 10) \o Digits[(n % 10) + 1]

\* strconv.Itoa
Itoa(n) == IF n < 0 THEN "-" \o ItoaNat(0 - n) ELSE ItoaNat(n)

---------------------------------------------------------------------------
(* The pattern compiler *)

\* splitPathEnd that sets slashend for a closing empty element and leaves the
\* element in place.
splitPathEndKept(elements) ==
  IF Len(elements) = 0 THEN [panic |-> TRUE, parts |-> <<>>, slashend |-> FALSE]
  ELSE [panic |-> FALSE, parts |-> elements,
        slashend |-> elements[Len(elements)] = ""]

\* splitPath, its end: a closing empty element is dropped and sets slashend.
\* elements[len(elements)-1] of no elements is an index out of range.
splitPathEnd(elements) ==
  IF Len(elements) = 0 THEN [panic |-> TRUE, parts |-> <<>>, slashend |-> FALSE]
  ELSE IF elements[Len(elements)] = ""
  THEN [panic |-> FALSE, parts |-> SubSeq(elements, 1, Len(elements) - 1),
        slashend |-> TRUE]
  ELSE [panic |-> FALSE, parts |-> elements, slashend |-> FALSE]

\* splitPath, its start: the empty element before the leading '/' is dropped.
splitPathStart(elements) ==
  splitPathEnd(IF elements[1] = "" THEN Tail(elements) ELSE elements)

\* splitPath: the '/'-separated elements of key and whether it ended in '/'.
splitPath(key) == splitPathStart(Split(key, "/"))

\* The loop of splitInput: cut at ':' outside a variable and at ';' inside.
\* (Its second condition, na+1 < n, never ends the loop early: n counts
\* every ':' and ';' of s, and each cut uses one up.)
RECURSIVE splitInputLoop(_, _, _, _, _)
splitInputLoop(s, i, start, in, a) ==
  IF i >= Len(s) THEN Append(a, SliceFrom(s, start))
  ELSE IF (At(s, i) = ":" /\ ~in) \/ (At(s, i) = ";" /\ in)
  THEN splitInputLoop(s, i + 1, i + 1, ~in, Append(a, Slice(s, start, i)))
  ELSE splitInputLoop(s, i + 1, start, in, a)

\* splitInput: alternating padding and variable runs, padding first.
splitInput(s) == IF s = "" THEN <<s>> ELSE splitInputLoop(s, 0, 0, FALSE, <<>>)

\* splitPad: the '|'-separated alternatives of a padding run.
splitPad(s) == IF s = "" THEN <<s>> ELSE Split(s, "|")

\* A Wildcard value.
Wildcard(name, min, max) == [Name |-> name, Min |-> min, Max |-> max]

\* decodeWildcard, [Min,Max]name: both bounds must be numbers.
decodeTwo(s, pos2, lo, hi) ==
  IF ~lo.err /\ ~hi.err THEN Wildcard(SliceFrom(s, pos2 + 2), lo.val, hi.val)
  ELSE Wildcard(s, 0, 0)

\* decodeWildcard, [N]name: the bound must be a number.
decodeOne(s, pos1, pos2, n) ==
  IF ~n.err THEN Wildcard(SliceFrom(s, pos2 + 2), n.val, n.val)
  ELSE IF pos1 > 0 /\ pos2 > pos1 + 1 /\ Len(s) > pos2 + 2
  THEN decodeTwo(s, pos2, Atoi(Slice(s, 1, pos1 + 1)), Atoi(Slice(s, pos1 + 2, pos2 + 1)))
  ELSE Wildcard(s, 0, 0)

\* decodeWildcard, a spec that opens with '[': pos1 and pos2 are the places
\* of ',' and ']' in s[1:].
decodeBounds(s, pos1, pos2) ==
  IF pos1 = -1 /\ pos2 > 0 /\ Len(s) > pos2 + 2
  THEN decodeOne(s, pos1, pos2, Atoi(Slice(s, 1, pos2 + 1)))
  ELSE IF pos1 > 0 /\ pos2 > pos1 + 1 /\ Len(s) > pos2 + 2
  THEN decodeTwo(s, pos2, Atoi(Slice(s, 1, pos1 + 1)), Atoi(Slice(s, pos1 + 2, pos2 + 1)))
  ELSE Wildcard(s, 0, 0)

\* decodeWildcard: name, [N]name or [Min,Max]name; anything else is a name.
\* s[0] of an empty s is an index out of range: the result is Nil then.
decodeWildcard(s) ==
  IF Len(s) = 0 THEN Nil
  ELSE IF At(s, 0) = "[" /\ Len(s) > 2
  THEN decodeBounds(s, Index(SliceFrom(s, 1), ","), Index(SliceFrom(s, 1), "]"))
  ELSE Wildcard(s, 0, 0)

---------------------------------------------------------------------------
(* The trie.  nodes is the heap of Node values, a *Node is an index into   *)
(* it, and the root is nodes[1].  A Leaf never changes once made, so a     *)
(* *Leaf is the Leaf record itself; an Edge is held by value, in its       *)
(* owner's edges map and, as a second copy, behind its child's parent.     *)

Root == 1

\* A nil *Node in a Leaf.
NilNode == 0

\* New: a node with an empty edges map.
New == [edges |-> <<>>, leaf |-> Nil, star |-> Nil, leafs |-> 0, parent |-> Nil]

\* An Edge value.
Edge(node, padding, wildcards, wildend, minorder, parent) ==
  [node |-> node, padding |-> padding, wildcards |-> wildcards,
   wildend |-> wildend, minorder |-> minorder, parent |-> parent]

\* A Leaf value.
Leaf(val, wildcards, order, parent, slashend) ==
  [Value |-> val, Wildcards |-> wildcards, order |-> order, parent |-> parent,
   slashend |-> slashend]

\* n.edges[representation] = element
putEdge(edges, representation, element) ==
  [k \in DOMAIN edges \cup {representation} |->
     IF k = representation THEN element ELSE edges[k]]

\* addEdge, with the Edge made: the new node, whose parent is a copy of the
\* Edge, is put on the heap and the Edge in the map of n.
linkEdge(ns, n, representation, element) ==
  [Append(ns, [New EXCEPT !.parent = element])
     EXCEPT ![n].edges = putEdge(@, representation, element)]

\* addEdge: a new Edge from n to a new node.
addEdge(ns, n, padding, wildcards, representation, wildend, order) ==
  linkEdge(ns, n, representation,
           Edge(Len(ns) + 1, padding, wildcards, wildend, order, n))

\* The loop of add that sorts the parts of an element into paddings (even
\* places, from 0) and variables (odd places).  A variable decodeWildcard
\* panics on ends the loop with panic set.
RECURSIVE decodeParts(_, _, _, _)
decodeVariable(parts, i, paddings, variables, w) ==
  IF w = Nil THEN [panic |-> TRUE, paddings |-> paddings, variables |-> variables]
  ELSE decodeParts(parts, i + 1, paddings, Append(variables, w))

decodeParts(parts, i, paddings, variables) ==
  IF i > Len(parts)
  THEN [panic |-> FALSE, paddings |-> paddings, variables |-> variables]
  ELSE IF i % 2 = 1
  THEN decodeParts(parts, i + 1, Append(paddings, splitPad(parts[i])), variables)
  ELSE decodeVariable(parts, i, paddings, variables, decodeWildcard(parts[i]))

\* The element with its closing ';' removed: the key of its edge.
stripEnd(el) ==
  IF Len(el) > 0 /\ At(el, Len(el) - 1) = ";" THEN Slice(el, 0, Len(el) - 1) ELSE el

\* What add returns, with the heap as it leaves it.
Added(ns, leaf, err) == [nodes |-> ns, leaf |-> leaf, err |-> err]

\* setLeaf without the test for a leaf already there.
setLeafOver(ns, n, l) == Added([ns EXCEPT ![n].leaf = l], l, "")

\* setLeaf with the leaf assigned before the test for one already there.
setLeafLate(ns, n, l) ==
  IF ns[n].leaf # Nil THEN Added([ns EXCEPT ![n].leaf = l], Nil, ErrDuplicate)
  ELSE Added([ns EXCEPT ![n].leaf = l], l, "")

\* add, no elements left: the leaf of n, unless it has one.
setLeaf(ns, n, l) ==
  IF ns[n].leaf # Nil THEN Added(ns, Nil, ErrDuplicate)
  ELSE Added([ns EXCEPT ![n].leaf = l], l, "")

\* add, a '*' element: the star of n, unless it has one.
setStar(ns, n, l) ==
  IF ns[n].star # Nil THEN Added(ns, Nil, ErrDuplicate)
  ELSE Added([ns EXCEPT ![n].star = l], l, "")

RECURSIVE add(_, _, _, _, _, _, _)

\* add, the edge found or made: on into its node.
addBelow(ns, n, order, key, rest, wildcards, slashend, val) ==
  add(ns, ns[n].edges[key].node, order, rest, wildcards, slashend, val)

\* add, the element decoded into d: the edge under key is looked up, and made
\* if n has none.  (For an edge found, item.minorder = order is set on item,
\* a copy of the map's Edge: the map keeps the order of the Add that made
\* the edge.)
addDecoded(ns, n, order, key, d, rest, wildcards, slashend, val) ==
  IF d.panic THEN Added(ns, Nil, Panic)
  ELSE addBelow(IF key \in DOMAIN ns[n].edges THEN ns
                ELSE addEdge(ns, n, d.paddings, d.variables, key,
                             Len(d.paddings) = Len(d.variables), order),
                n, order, key, rest, wildcards \o d.variables, slashend, val)

\* add, with el peeled off the elements.
addElement(ns, n, order, el, rest, wildcards, slashend, val) ==
  IF Len(el) > 0 /\ At(el, 0) = "*"
  THEN setStar(ns, n, Leaf(val, Append(wildcards, Wildcard(SliceFrom(el, 1), 0, 0)),
                           order, n, slashend))
  ELSE addDecoded(ns, n, order, stripEnd(el),
                  decodeParts(splitInput(stripEnd(el)), 1, <<>>, <<>>),
                  rest, wildcards, slashend, val)

\* Node.add: descend one element at a time, making edges as needed, and set
\* the leaf or the star at the end.
add(ns, n, order, elements, wildcards, slashend, val) ==
  IF Len(elements) = 0
  THEN setLeaf(ns, n, Leaf(val, wildcards, order, n, slashend))
  ELSE addElement(ns, n, order, elements[1], Tail(elements), wildcards, slashend, val)

\* Add, after n.leafs++.
addCounted(ns, n, sp, val) ==
  add(ns, n, ns[n].leafs, sp.parts, <<>>, sp.slashend, val)

\* AddAt with n.leafs++ done before the key is looked at.
AddAtEager(ns, n, key, val) ==
  IF Len(key) = 0 THEN Added(ns, Nil, Panic)
  ELSE IF At(key, 0) # "/" THEN Added([ns EXCEPT ![n].leafs = @ + 1], Nil, ErrInvalid)
  ELSE addCounted([ns EXCEPT ![n].leafs = @ + 1], n, splitPath(key), val)

\* Node.Add on node n: key[0] of an empty key is an index out of range.
AddAt(ns, n, key, val) ==
  IF Len(key) = 0 THEN Added(ns, Nil, Panic)
  ELSE IF At(key, 0) # "/" THEN Added(ns, Nil, ErrInvalid)
  ELSE addCounted([ns EXCEPT ![n].leafs = @ + 1], n, splitPath(key), val)

---------------------------------------------------------------------------
(* The matcher.  A slice of strings is its elements and, where find        *)
(* appends to it, its capacity; a nil slice and an empty one are <<>>.     *)

\* Whether a text of length n breaks the bounds of wildcard item.
outOfBounds(item, n) ==
  (item.Min # 0 /\ n < item.Min) \/ (item.Max # 0 /\ n > item.Max)

\* The inner loop of find over the alternatives pads of padding group count
\* (from 0), from alternative j on: the first alternative found in input (at
\* its start, for the first group) that leaves the wildcard before it within
\* its bounds.
RECURSIVE tryPads(_, _, _, _, _)
tryPad(value, count, pads, j, input, pos) ==
  IF pos = -1 \/ (count = 0 /\ pos > 0)
  THEN tryPads(value, count, pads, j + 1, input)
  ELSE IF count # 0 /\ outOfBounds(value.wildcards[count], pos)
  THEN tryPads(value, count, pads, j + 1, input)
  ELSE [found |-> TRUE, pos |-> pos, pad |-> pads[j]]

tryPads(value, count, pads, j, input) ==
  IF j > Len(pads) THEN [found |-> FALSE, pos |-> 0, pad |-> ""]
  ELSE tryPad(value, count, pads, j, input, Index(input, pads[j]))

\* The loop of find over the padding groups of edge value, from group count
\* on: what is left of the input and the variables bound so far.
RECURSIVE matchPadding(_, _, _, _)
matchGroup(value, count, input, variables, t) ==
  IF ~t.found THEN [found |-> FALSE, input |-> input, variables |-> variables]
  ELSE matchPadding(value, count + 1, SliceFrom(input, t.pos + Len(t.pad)),
                    IF count # 0 THEN Append(variables, Slice(input, 0, t.pos))
                    ELSE variables)

matchPadding(value, count, input, variables) ==
  IF count >= Len(value.padding)
  THEN [found |-> TRUE, input |-> input, variables |-> variables]
  ELSE matchGroup(value, count, input, variables,
                  tryPads(value, count, value.padding[count + 1], 1, input))

\* The end of a pass of find's loop before its recursive call: an edge that
\* ends in a wildcard binds what is left of the input to it.
matchEnd(value, m) ==
  IF ~m.found THEN [found |-> FALSE, variables |-> <<>>]
  ELSE IF ~value.wildend THEN [found |-> TRUE, variables |-> m.variables]
  ELSE IF outOfBounds(value.wildcards[Len(value.wildcards)], Len(m.input))
  THEN [found |-> FALSE, variables |-> <<>>]
  ELSE [found |-> TRUE, variables |-> Append(m.variables, m.input)]

\* A pass of find's loop before its recursive call: whether edge value takes
\* the element el, and the variables it binds.
matchEdge(value, el) == matchEnd(value, matchPadding(value, 0, el, <<>>))

\* The capacity of the array append allocates for newLen elements when a
\* slice of capacity cap cannot hold them.
grow(cap, newLen) == IF newLen > 2 * cap THEN newLen ELSE 2 * cap

\* append(exp, vs...) on a slice exp of capacity cap: in place when the
\* capacity suffices (the new elements are written into the array exp shares
\* with its other holders, writes says where), else into a new array.
appendTo(exp, cap, vs) ==
  IF Len(exp) + Len(vs) <= cap
  THEN [elems |-> exp \o vs, cap |-> cap, inplace |-> TRUE,
        writes |-> [i \in (Len(exp) + 1)..(Len(exp) + Len(vs)) |-> vs[i - Len(exp)]]]
  ELSE [elems |-> exp \o vs, cap |-> grow(cap, Len(exp) + Len(vs)),
        inplace |-> FALSE, writes |-> <<>>]

\* The array writes w2 after the writes w1.
overwrite(w1, w2) ==
  [i \in DOMAIN w1 \cup DOMAIN w2 |-> IF i \in DOMAIN w2 THEN w2[i] ELSE w1[i]]

\* A slice as its holder reads it after the writes w to its array.
reread(elems, w) ==
  [i \in 1..Len(elems) |-> IF i \in DOMAIN w THEN w[i] ELSE elems[i]]

\* What find holds in (leaf, expansions) in the course of its loop.  shared
\* says whether expansions lies in the array of find's exp, and writes what
\* find has written to that array so far.
Found(leaf, expansions, shared, writes) ==
  [leaf |-> leaf, expansions |-> expansions, shared |-> shared, writes |-> writes]

\* takeWritten with its comparison of orders turned round.
takeWrittenNewer(st, a, r, w) ==
  IF r.leaf # Nil /\ (st.leaf = Nil \/ st.leaf.order < r.leaf.order)
  THEN Found(r.leaf, r.expansions, a.inplace /\ r.shared, overwrite(st.writes, w))
  ELSE Found(st.leaf, IF st.shared THEN reread(st.expansions, w) ELSE st.expansions,
             st.shared, overwrite(st.writes, w))

\* The end of a pass of find's loop, w being what the pass wrote to the
\* array of exp: the leaf of the recursive call r is taken if it is the
\* first or of a lower order.
takeWritten(st, a, r, w) ==
  IF r.leaf # Nil /\ (st.leaf = Nil \/ st.leaf.order > r.leaf.order)
  THEN Found(r.leaf, r.expansions, a.inplace /\ r.shared, overwrite(st.writes, w))
  ELSE Found(st.leaf, IF st.shared THEN reread(st.expansions, w) ELSE st.expansions,
             st.shared, overwrite(st.writes, w))

\* The end of a pass of find's loop: st is (leaf, expansions) so far, a the
\* slice appended for the recursive call and r what the call returned.
takeBetter(st, a, r) ==
  takeWritten(st, a, r, IF a.inplace THEN overwrite(a.writes, r.writes) ELSE <<>>)

\* find, before its loop: the star of n, if it has one, is the leaf so far.
starFirst(star, a) ==
  IF star # Nil THEN Found(star, a.elems, a.inplace, a.writes)
  ELSE Found(Nil, <<>>, FALSE, <<>>)

RECURSIVE find(_, _, _, _, _)
RECURSIVE rangeEdges(_, _, _, _, _, _, _, _)

\* A pass of find's loop from its recursive call on, for each result of it.
descend(ns, n, left, st, el, rest, exp, cap, value, a) ==
  UNION { rangeEdges(ns, n, left, takeBetter(st, a, r), el, rest, exp, cap)
          : r \in find(ns, value.node, rest, a.elems, a.cap) }

\* visit with its pruning test turned round: the edge is skipped if the
\* leaf held is younger than something below it.
visitPruned(ns, n, left, st, el, rest, exp, cap, value) ==
  IF st.leaf # Nil /\ st.leaf.order > value.minorder
  THEN rangeEdges(ns, n, left, st, el, rest, exp, cap)
  ELSE descend(ns, n, left, st, el, rest, exp, cap, value,
               appendTo(exp, cap, matchEdge(value, el).variables))

\* A pass of find's loop, for edge value: skipped if the leaf held is older
\* than everything below the edge.
visit(ns, n, left, st, el, rest, exp, cap, value) ==
  IF st.leaf # Nil /\ st.leaf.order < value.minorder
  THEN rangeEdges(ns, n, left, st, el, rest, exp, cap)
  ELSE descend(ns, n, left, st, el, rest, exp, cap, value,
               appendTo(exp, cap, matchEdge(value, el).variables))

\* find's loop over the edges map of n, whose order of visit is not fixed:
\* any edge of todo, those not visited yet, may be next.  The results for
\* every order.
rangeEdges(ns, n, todo, st, el, rest, exp, cap) ==
  IF todo = {} THEN {st}
  ELSE UNION { visit(ns, n, todo \ {k}, st, el, rest, exp, cap, ns[n].edges[k])
               : k \in todo }

\* Node.find on node n: the set of results, one for each order in which the
\* edges can be visited.  An edge that does not take the first element
\* leaves no trace whenever it is visited: the loop is over those that do.
find(ns, n, elements, exp, cap) ==
  IF Len(elements) = 0 THEN {Found(ns[n].leaf, exp, TRUE, <<>>)}
  ELSE rangeEdges(ns, n,
                  {k \in DOMAIN ns[n].edges : matchEdge(ns[n].edges[k], elements[1]).found},
                  starFirst(ns[n].star, appendTo(exp, cap, <<Join(elements, "/")>>)),
                  elements[1], Tail(elements), exp, cap)

\* What Find returns, or that it panicked.
Result(leaf, expansions, panic) ==
  [leaf |-> leaf, expansions |-> expansions, panic |-> panic]

\* Find, with the key split.
findSplit(ns, n, sp) ==
  IF sp.panic THEN {Result(Nil, <<>>, TRUE)}
  ELSE {Result(r.leaf, r.expansions, FALSE) : r \in find(ns, n, sp.parts, <<>>, 0)}

\* FindAt without the test for an empty key.
FindAtUnguarded(ns, n, key) ==
  IF Len(key) > 0 /\ At(key, 0) # "/" THEN {Result(Nil, <<>>, FALSE)}
  ELSE findSplit(ns, n, splitPath(key))

\* Node.Find on node n: the set of (leaf, expansions) it can return.
FindAt(ns, n, key) ==
  IF Len(key) = 0 \/ At(key, 0) # "/" THEN {Result(Nil, <<>>, FALSE)}
  ELSE findSplit(ns, n, splitPath(key))

---------------------------------------------------------------------------
(* The reverser.  A map[string]string is a function from its keys.         *)

\* delete(variables, name)
delete(variables, name) == [k \in DOMAIN variables \ {name} |-> variables[k]]

\* "[min,max]name", how reverse names a wildcard it could not fill.
descriptor(value) ==
  "[" \o Itoa(value.Min) \o "," \o Itoa(value.Max) \o "]" \o value.Name

\* The loop of reverse over the wildcards of edge, from wildcard key (from 1)
\* on: the text put out, the variables left and the wildcards missed.
RECURSIVE fillEdge(_, _, _, _, _)
\* fillOne with the delete done whether or not the wildcard was filled, as
\* in the revision before.
fillOneDeleted(edge, key, output, variables, missed, value, ok) ==
  IF ok
  THEN fillEdge(edge, key + 1, output \o edge.padding[key][1] \o variables[value.Name],
                delete(variables, value.Name), missed)
  ELSE fillEdge(edge, key + 1, output \o edge.padding[key][1],
                delete(variables, value.Name), Append(missed, descriptor(value)))

fillOne(edge, key, output, variables, missed, value, ok) ==
  IF ok
  THEN fillEdge(edge, key + 1, output \o edge.padding[key][1] \o variables[value.Name],
                delete(variables, value.Name), missed)
  ELSE fillEdge(edge, key + 1, output \o edge.padding[key][1], variables,
                Append(missed, descriptor(value)))

fillEdge(edge, key, output, variables, missed) ==
  IF key > Len(edge.wildcards)
  THEN [output |-> output, variables |-> variables, missed |-> missed]
  ELSE fillOne(edge, key, output, variables, missed, edge.wildcards[key],
               /\ edge.wildcards[key].Name \in DOMAIN variables
               /\ ~outOfBounds(edge.wildcards[key],
                               Len(variables[edge.wildcards[key].Name])))

\* What Reverse returns.
Reversed(path, unused, err) == [path |-> path, unused |-> unused, err |-> err]

\* Node.reverse: from node n up to the root, one edge at a time.
RECURSIVE reverse(_, _, _, _, _, _)
\* reverseEdge without the closing padding of an edge.
reverseEdgeOpen(ns, exp, slashend, edge, f) ==
  reverse(ns, edge.parent, "/" \o f.output \o exp, f.variables, f.missed, slashend)

reverseEdge(ns, exp, slashend, edge, f) ==
  reverse(ns, edge.parent,
          IF edge.wildend THEN "/" \o f.output \o exp
          ELSE "/" \o f.output \o edge.padding[Len(edge.padding)][1] \o exp,
          f.variables, f.missed, slashend)

reverse(ns, n, exp, variables, missed, slashend) ==
  IF ns[n].parent = Nil
  THEN Reversed(IF slashend THEN exp \o "/" ELSE exp, variables, missed)
  ELSE reverseEdge(ns, exp, slashend, ns[n].parent,
                   fillEdge(ns[n].parent, 1, "", variables, missed))

\* Node.Reverse
ReverseOf(ns, leaf, variables) ==
  IF leaf = Nil \/ leaf.parent = NilNode THEN Reversed("", variables, <<>>)
  ELSE reverse(ns, leaf.parent, "", variables, <<>>, leaf.slashend)

---------------------------------------------------------------------------
(* The caller.  Each run draws its inputs from one suite: the (key, value) *)
(* pairs it may Add, the paths it may Find, the variable maps it may hand  *)
(* to Reverse.                                                              *)

Suites == <<
  \* literal, wildcard and star patterns over the same paths
  [adds  |-> {<<"/:a/:b", 1>>, <<"/n/f", 2>>, <<"/*r", 3>>, <<"/n/f", 4>>, <<"/", 5>>},
   paths |-> {"/n/f", "/n/f/", "/n", "/", "", "xyz", "/n/f/g", "/n/fx"},
   maps  |-> {[a |-> "n", b |-> "f"], <<>>}],
  \* keys Add rejects, wildcard specs with and without bounds
  [adds  |-> {<<"", 1>>, <<"x", 1>>, <<"/:", 1>>, <<"/:[x]a", 1>>, <<"/:[2]a", 2>>,
              <<"/:[1,2]a;b|c", 3>>},
   paths |-> {"/zz", "/z", "/zzb", "/zc", "/zzzc"},
   maps  |-> {[a |-> "zz"], [a |-> "z"], [a |-> "zzz", b |-> "y"]}],
  \* patterns to reverse: paddings, alternatives, a closing slash, a star
  [adds  |-> {<<"/P:f;/U:s/", 1>>, <<"/A:f;_:[2,4]y;", 2>>, <<"/a|b:x;c|d", 3>>,
              <<"/f/*s", 4>>, <<"/:x", 5>>},
   paths |-> {"/Pa/Uq/", "/AM_2013", "/b1d", "/f/q/r", "/f"},
   maps  |-> {[f |-> "a", s |-> "q"], [f |-> "M", y |-> "1"], [f |-> "M", y |-> "2013"],
              [s |-> "q", x |-> "1"]}],
  \* paths that bind three variables before the tree branches
  [adds  |-> {<<"/:a;.:b/:c/x:d/z", 1>>, <<"/:a;.:b/:c/*s", 2>>, <<"/:a;.:b/:c/:e", 3>>,
              <<"/*r", 4>>},
   paths |-> {"/1.2/3/x4", "/1.2/3/x4/", "/1.2/3", "/1.2/3/x4/5"},
   maps  |-> {[a |-> "1", b |-> "2", c |-> "3", e |-> "x4"]}],
  \* a bounded wildcard beside an older edge, a key that panics below an edge
  [adds  |-> {<<"/:a;.:b/:c/x:d/z", 1>>, <<"/:a;.:b/:c/:[2]e", 2>>, <<"/n/:", 3>>},
   paths |-> {"/1.2/3/x4", "/1.2/3/x"},
   maps  |-> {[a |-> "1", b |-> "2", c |-> "3", e |-> "x4"]}]
>>

\* A Leaf the caller made itself: the zero value.
ZeroLeaf == [Value |-> 0, Wildcards |-> <<>>, order |-> 0, parent |-> NilNode,
             slashend |-> FALSE]

\* The leaves of the tree.
AllLeaves(ns) ==
  ({ns[i].leaf : i \in 1..Len(ns)} \cup {ns[i].star : i \in 1..Len(ns)}) \ {Nil}

\* A panic ends the program.
Alive == ~(last.op = "Add" /\ last.err = Panic)

Init ==
  /\ nodes = <<New>>
  /\ last = [op |-> "New"]
  /\ calls = <<>>
  /\ suite \in DOMAIN Suites

\* n.Add(key, val) on the root
AddCall ==
  /\ Alive
  /\ Len(calls) < MaxAdds
  /\ \E in \in Suites[suite].adds :
       LET r == AddAt(nodes, Root, in[1], in[2])
           call == [op |-> "Add", key |-> in[1], val |-> in[2],
                    leaf |-> r.leaf, err |-> r.err]
       IN  /\ nodes' = r.nodes
           /\ last' = call
           /\ calls' = Append(calls, call)
  /\ UNCHANGED suite

\* n.Find(key) on the root
FindCall ==
  /\ Alive
  /\ \E key \in Suites[suite].paths :
       \E r \in FindAt(nodes, Root, key) :
         last' = [op |-> "Find", key |-> key, leaf |-> r.leaf,
                  expansions |-> r.expansions, panic |-> r.panic]
  /\ UNCHANGED <<nodes, calls, suite>>

\* n.Reverse(leaf, variables)
ReverseCall ==
  /\ Alive
  /\ \E leaf \in AllLeaves(nodes) \cup {Nil, ZeroLeaf} :
       \E variables \in Suites[suite].maps :
         LET r == ReverseOf(nodes, leaf, variables)
         IN  last' = [op |-> "Reverse", leaf |-> leaf, variables |-> variables,
                      path |-> r.path, unused |-> r.unused, err |-> r.err]
  /\ UNCHANGED <<nodes, calls, suite>>

Next == AddCall \/ FindCall \/ ReverseCall

Spec == Init /\ [][Next]_vars

---------------------------------------------------------------------------
(* What the claims speak of *)

\* The edges from the root down to node n, read off the parent pointers.
RECURSIVE EdgesTo(_, _)
EdgesTo(ns, n) ==
  IF ns[n].parent = Nil THEN <<>>
  ELSE Append(EdgesTo(ns, ns[n].parent.parent), ns[n].parent)

\* Whether leaf l is the star of its node.
IsStar(ns, l) == ns[l.parent].star = l

\* Whether the pattern of leaf l can match the elements of a path: each
\* element is taken by the edge at its depth, and they end at the leaf's
\* node or, for a star, leave one or more elements over.
CanMatch(ns, l, elements) ==
  LET route == EdgesTo(ns, l.parent)
  IN  /\ IF IsStar(ns, l) THEN Len(elements) > Len(route)
         ELSE Len(elements) = Len(route)
      /\ \A i \in 1..Len(route) : matchEdge(route[i], elements[i]).found

\* The leaves whose patterns can match the path key.
Candidates(ns, key) ==
  {l \in AllLeaves(ns) : CanMatch(ns, l, splitPath(key).parts)}

\* A path Find does not turn away.
WellFormed(key) == Len(key) > 0 /\ At(key, 0) = "/"

\* The successful Add calls so far that registered key.
Registered(key) == {j \in 1..Len(calls) : calls[j].key = key /\ calls[j].err = ""}

\* A pattern without wildcards: no ':' in it and no element that starts
\* with '*'.
NoWildcards(key) == Index(key, ":") = -1 /\ Index(key, "/*") = -1

---------------------------------------------------------------------------
C3_DuplicateKeepsLeaf ==
  [][/\ \A i \in 1..Len(nodes) :
          /\ nodes[i].leaf # Nil => nodes'[i].leaf = nodes[i].leaf
          /\ nodes[i].star # Nil => nodes'[i].star = nodes[i].star
     /\ (Len(calls') > Len(calls) /\ Registered(last'.key) # {}) =>
          /\ last'.err = ErrDuplicate /\ last'.leaf = Nil
          /\ AllLeaves(nodes') = AllLeaves(nodes)
          /\ \A j \in Registered(last'.key) : calls[j].leaf \in AllLeaves(nodes')
    ]_vars

\* A key was added a second time, with another value, and refused; the
\* leaf of the first Add is in the tree.
C3_Witness ==
  /\ last.op = "Add" /\ last.err = ErrDuplicate
  /\ \E j \in Registered(last.key) :
       calls[j].val # last.val /\ calls[j].leaf \in AllLeaves(nodes)

(* C4: every Add ends with "Path must begin with /", with "duplicate path" *)
(* or with a leaf; the first of them exactly when the key does not start   *)
(* with '/', the empty key included.                                       *)
C4_AddOutcomes ==
  last.op = "Add" =>
    /\ \/ last.err \in {ErrInvalid, ErrDuplicate} /\ last.leaf = Nil
       \/ last.err = "" /\ last.leaf # Nil
    /\ last.err = ErrInvalid <=> ~WellFormed(last.key)

(* What Reverse is to return, said wildcard by wildcard *)

\* The wildcards reverse meets from node n up to the root, in the order it
\* meets them: edge by edge upwards, left to right within an edge.
RECURSIVE WildsUp(_, _)
WildsUp(ns, n) ==
  IF ns[n].parent = Nil THEN <<>>
  ELSE ns[n].parent.wildcards \o WildsUp(ns, ns[n].parent.parent)

\* Whether the k-th wildcard met takes a value from the map v: its name is
\* in v, the value is within its bounds, and no wildcard met before it took
\* the entry.
Takes(w, v) ==
  LET t[k \in 0..Len(w)] ==
        IF k = 0 THEN FALSE
        ELSE /\ w[k].Name \in DOMAIN v
             /\ ~outOfBounds(w[k], Len(v[w[k].Name]))
             /\ \A j \in 1..(k - 1) : w[j].Name = w[k].Name => ~t[j]
  IN  t

\* The descriptors of the wildcards among the first k met that take nothing.
RECURSIVE MissingOf(_, _, _)
MissingOf(w, t, k) ==
  IF k = 0 THEN <<>>
  ELSE IF t[k] THEN MissingOf(w, t, k - 1)
  ELSE Append(MissingOf(w, t, k - 1),
              "[" \o Itoa(w[k].Min) \o "," \o Itoa(w[k].Max) \o "]" \o w[k].Name)

\* The entries of v that no wildcard takes.
UnusedOf(w, t, v) ==
  [name \in DOMAIN v \ {w[k].Name : k \in {i \in 1..Len(w) : t[i]}} |-> v[name]]

\* The number of wildcards on the edges below place d of route.
RECURSIVE Below(_, _)
Below(route, d) ==
  IF d >= Len(route) THEN 0
  ELSE Len(route[d + 1].wildcards) + Below(route, d + 1)

\* The text of edge e with the first alternative of each padding group and,
\* at wildcard i, the value of the wildcard met (off + i)-th, if it takes one.
RECURSIVE EdgeText(_, _, _, _, _, _)
EdgeText(e, i, off, w, t, v) ==
  IF i > Len(e.wildcards)
  THEN IF e.wildend THEN "" ELSE e.padding[Len(e.padding)][1]
  ELSE e.padding[i][1]
         \o (IF t[off + i] THEN v[w[off + i].Name] ELSE "")
         \o EdgeText(e, i + 1, off, w, t, v)

\* The path of route from its place d on, root-most edge first, a '/'
\* before each edge.
RECURSIVE PathText(_, _, _, _, _)
PathText(route, d, w, t, v) ==
  IF d > Len(route) THEN ""
  ELSE "/" \o EdgeText(route[d], 1, Below(route, d), w, t, v)
           \o PathText(route, d + 1, w, t, v)

\* The path of the leaf at node n for the map v, without its closing '/'.
BodyOf(ns, n, v) ==
  PathText(EdgesTo(ns, n), 1, WildsUp(ns, n), Takes(WildsUp(ns, n), v), v)

\* A Reverse of a leaf of the tree.
ReversedLeaf == last.op = "Reverse" /\ last.leaf \in AllLeaves(nodes)

(* C5: after Reverse of a leaf with a value within bounds for every        *)
(* wildcard of the leaf, Find on the path it produced returns that leaf    *)
(* and the values substituted as expansions.                               *)
C5_RoundTrip ==
  (/\ ReversedLeaf
   /\ \A i \in 1..Len(last.leaf.Wildcards) :
        /\ last.leaf.Wildcards[i].Name \in DOMAIN last.variables
        /\ ~outOfBounds(last.leaf.Wildcards[i],
                        Len(last.variables[last.leaf.Wildcards[i].Name])))
  => \A r \in FindAt(nodes, Root, last.path) :
       /\ r.leaf = last.leaf
       /\ r.expansions = [i \in 1..Len(last.leaf.Wildcards) |->
                            last.variables[last.leaf.Wildcards[i].Name]]

(* C6: Reverse substitutes the empty string for a wildcard whose name is   *)
(* not in the map or whose value breaks its bounds and lists its           *)
(* descriptor "[min,max]name" as missing, in the order met; it substitutes *)
(* the value otherwise; and unused holds exactly the entries of the map    *)
(* that were not substituted.                                              *)
C6_ReverseMissingUnused ==
  ReversedLeaf =>
    LET w == WildsUp(nodes, last.leaf.parent)
        t == Takes(w, last.variables)
    IN  /\ last.err = MissingOf(w, t, Len(w))
        /\ last.unused = UnusedOf(w, t, last.variables)
        /\ last.path = BodyOf(nodes, last.leaf.parent, last.variables)
                         \o (IF last.leaf.slashend THEN "/" ELSE "")

\* Reverse of /A:f;_:[2,4]y; with f and a y too short: f substituted, y
\* missing and left in unused.
C6_Witness ==
  /\ ReversedLeaf
  /\ last.err = <<"[2,4]y">>
  /\ last.unused = [y |-> "1"]
  /\ last.variables = [f |-> "M", y |-> "1"]
  /\ last.path = "/AM_"

(* C7: the path of Reverse is, for each edge from the root down to the     *)
(* leaf, a '/' and the text of the edge, with the first alternative of     *)
(* each padding group, the substituted values between the groups and the   *)
(* closing padding only if the edge does not end in a wildcard; and a      *)
(* closing '/' exactly if the pattern was registered with one.             *)
C7_ReversePathShape ==
  ReversedLeaf =>
    \E j \in 1..Len(calls) :
      /\ calls[j].leaf = last.leaf
      /\ last.path = BodyOf(nodes, last.leaf.parent, last.variables)
                       \o (IF At(calls[j].key, Len(calls[j].key) - 1) = "/"
                           THEN "/" ELSE "")

\* Reverse of /a|b:x;c|d: the first alternatives a and c around the value,
\* no closing '/'.
C7_Witness ==
  /\ ReversedLeaf
  /\ last.path = "/a1c"
  /\ \E j \in 1..Len(calls) : calls[j].leaf = last.leaf /\ calls[j].key = "/a|b:x;c|d"

(* C8: a star leaf is returned only for a path that reaches the star's     *)
(* node with one or more elements left, and its last expansion is those    *)
(* elements joined by '/'; any other leaf is returned only for a path      *)
(* with no element left at its node.                                       *)
C8_StarExpansion ==
  (last.op = "Find" /\ last.leaf # Nil) =>
    LET parts == splitPath(last.key).parts
        depth == Len(EdgesTo(nodes, last.leaf.parent))
    IN  IF IsStar(nodes, last.leaf)
        THEN /\ Len(parts) > depth
             /\ Len(last.expansions) > 0
             /\ last.expansions[Len(last.expansions)]
                  = Join(SubSeq(parts, depth + 1, Len(parts)), "/")
        ELSE Len(parts) = depth

C11_ExpansionsWithinBounds ==
  (last.op = "Find" /\ last.leaf # Nil) =>
    \A i \in 1..Len(WildsUp(nodes, last.leaf.parent)) :
      /\ i <= Len(last.expansions)
      /\ ~outOfBounds(last.leaf.Wildcards[i], Len(last.expansions[i]))

\* The edges of the tree, as the edges maps hold them.
AllEdges(ns) ==
  UNION {{ns[i].edges[k] : k \in DOMAIN ns[i].edges} : i \in 1..Len(ns)}

\* The orders of the leaves and stars reachable through edge e.
OrdersBelow(ns, e) ==
  {l.order : l \in {m \in AllLeaves(ns) :
                      \E i \in 1..Len(EdgesTo(ns, m.parent)) :
                        EdgesTo(ns, m.parent)[i].node = e.node}}

(* C12: in every state, the minorder of each edge is the smallest order    *)
(* among the leaves and stars reachable through the edge.                  *)
C12_MinOrderIsSmallest ==
  \A e \in AllEdges(nodes) :
    /\ e.minorder \in OrdersBelow(nodes, e)
    /\ \A o \in OrdersBelow(nodes, e) : e.minorder <= o

C14_OrderOfVisitIrrelevant ==
  last.op = "Find" =>
    FindAt(nodes, Root, last.key)
      = {Result(last.leaf, last.expansions, last.panic)}

\* An Add that has returned one of its two errors.
AddFailed == Len(calls') > Len(calls) /\ last'.err \in {ErrInvalid, ErrDuplicate}

C16_MatchStable ==
  [][(Len(calls') > Len(calls) /\ last'.err # Panic) =>
       \A key \in Suites[suite].paths :
         \A r \in FindAt(nodes, Root, key) :
           r.leaf # Nil => FindAt(nodes', Root, key) = {r}
    ]_vars

(* C17: Find returns a leaf only if each element of the path is used up    *)
(* by its edge: an edge that does not end in a wildcard leaves no text     *)
(* after its last padding.                                                 *)
C17_ElementsUsedUp ==
  (last.op = "Find" /\ last.leaf # Nil) =>
    \A i \in 1..Len(EdgesTo(nodes, last.leaf.parent)) :
      LET edge == EdgesTo(nodes, last.leaf.parent)[i]
          m == matchPadding(edge, 0, splitPath(last.key).parts[i], <<>>)
      IN  m.found /\ (edge.wildend \/ m.input = "")

\* The texts the edges of route, from place i on, bind in the elements parts.
RECURSIVE BoundBy(_, _, _)
BoundBy(route, parts, i) ==
  IF i > Len(route) THEN <<>>
  ELSE matchEdge(route[i], parts[i]).variables \o BoundBy(route, parts, i + 1)

(* C18: whenever Find returns a leaf, there are as many expansions as the  *)
(* leaf has wildcards, and they are the texts its wildcards bind, from the *)
(* root down, that of a star last.                                         *)
C18_ExpansionsInOrder ==
  (last.op = "Find" /\ last.leaf # Nil) =>
    LET route == EdgesTo(nodes, last.leaf.parent)
        parts == splitPath(last.key).parts
    IN  /\ Len(last.expansions) = Len(last.leaf.Wildcards)
        /\ last.expansions =
             BoundBy(route, parts, 1)
               \o (IF IsStar(nodes, last.leaf)
                   THEN <<Join(SubSeq(parts, Len(route) + 1, Len(parts)), "/")>>
                   ELSE <<>>)

=============================================================================
